---- MODULE Spec2Model ----
(***************************************************************************)
(* Model of mcp_pdl_initialization.py: the script builds a fixed project   *)
(* status record stamped with datetime.now().isoformat(), renders it with  *)
(* json.dumps(status, indent=2) and prints it.                             *)
(*                                                                         *)
(* Python values are tagged records:                                       *)
(*   str       [t |-> "str",  s |-> "..."]                                 *)
(*   list      [t |-> "list", items |-> <<v1, ...>>]                       *)
(*   dict      [t |-> "dict", pairs |-> << <<k1, v1>>, ... >>]  (insertion *)
(*             order, as Python dicts keep it)                             *)
(*   datetime  [t |-> "datetime", dt |-> [year, ..., microsecond]]         *)
(*   unset     [t |-> "unset"]        (a name not bound yet)               *)
(* Text (the result of isoformat and json.dumps, and what is printed) is a *)
(* TLA+ string, handled character by character.                            *)
(***************************************************************************)
EXTENDS Integers, Sequences, FiniteSets

\* ------------------------------------------------------------------ bounds
\* The wall clock is observed in a window of MaxSecond+1 seconds, each with
\* the microsecond values 0..MaxMicrosecond; the program is started at most
\* MaxRuns times.
MaxSecond == 1
MaxMicrosecond == 1
MaxRuns == 2

\* ------------------------------------------------------------ Python values
Str(s) == [t |-> "str", s |-> s]
List(items) == [t |-> "list", items |-> items]
Dict(pairs) == [t |-> "dict", pairs |-> pairs]
Datetime(dt) == [t |-> "datetime", dt |-> dt]
Unset == [t |-> "unset"]

Keys(d) == [i \in 1..Len(d.pairs) |-> d.pairs[i][1]]

HasKey(d, k) == \E i \in 1..Len(d.pairs) : d.pairs[i][1] = k

\* d[k]
Get(d, k) == d.pairs[CHOOSE i \in 1..Len(d.pairs) : d.pairs[i][1] = k][2]

\* ------------------------------------------------------------------- text
\* s[i:i+1]: the character at i, nothing past the end
Char(s, i) == IF i \in 1..Len(s) THEN SubSeq(s, i, i) ELSE ""

RECURSIVE Repeat(_, _)
Repeat(s, n) == IF n <= 0 THEN "" ELSE s \o Repeat(s, n - 1)

Digit(d) == Char("0123456789", d + 1)

\* "%0<width>d" % n
RECURSIVE ZeroPad(_, _)
ZeroPad(n, width) ==
    IF width <= 0 THEN ""
    ELSE ZeroPad(n \div 10, width - 1) \o Digit(n % 10)

\* datetime.isoformat(): "YYYY-MM-DDTHH:MM:SS", followed by ".ffffff" only
\* when the microsecond field is not zero.
isoformat(dt) ==
    ZeroPad(dt.year, 4) \o "-" \o ZeroPad(dt.month, 2) \o "-" \o ZeroPad(dt.day, 2)
    \o "T" \o ZeroPad(dt.hour, 2) \o ":" \o ZeroPad(dt.minute, 2) \o ":"
    \o ZeroPad(dt.second, 2)
    \o (IF dt.microsecond # 0 THEN "." \o ZeroPad(dt.microsecond, 6) ELSE "")

\* --------------------------------------------------------------- json.dumps
\* The string escapes of json.encoder (ESCAPE_DCT); the record holds
\* printable ASCII only, so the \uXXXX forms never arise.
EscapeChar(c) ==
    CASE c = "\"" -> "\\\""
      [] c = "\\" -> "\\\\"
      [] c = "\n" -> "\\n"
      [] c = "\r" -> "\\r"
      [] c = "\t" -> "\\t"
      [] OTHER -> c

\* ESCAPE_ASCII.sub(replace, s) from position i of s: the text up to the next
\* character that has an escape is copied, the character replaced
NeedsEscape(s, j) == EscapeChar(Char(s, j)) # Char(s, j)

RECURSIVE EscapeFrom(_, _)

\* the text i..j-1 copied, the character at j replaced
EscapeAt(s, i, j) ==
    SubSeq(s, i, j - 1) \o EscapeChar(Char(s, j)) \o EscapeFrom(s, j + 1)

EscapeFrom(s, i) ==
    IF ~\E j \in i..Len(s) : NeedsEscape(s, j) THEN SubSeq(s, i, Len(s))
    ELSE EscapeAt(s, i,
                  CHOOSE j \in i..Len(s) :
                      /\ NeedsEscape(s, j)
                      /\ \A k \in i..(j - 1) : ~NeedsEscape(s, k))

\* encode_basestring_ascii
encode_basestring(s) == "\"" \o EscapeFrom(s, 1) \o "\""

\* What json.dumps can render: str, list and dict (with str keys) of
\* renderable values.  Anything else makes the encoder's default() raise
\* TypeError.
RECURSIVE Renderable(_)
Renderable(o) ==
    CASE o.t = "str" -> TRUE
      [] o.t = "list" -> \A i \in 1..Len(o.items) : Renderable(o.items[i])
      [] o.t = "dict" -> \A i \in 1..Len(o.pairs) : Renderable(o.pairs[i][2])
      [] OTHER -> FALSE

NewlineIndent(indent, level) == "\n" \o Repeat(" ", indent * level)

RECURSIVE iterencode(_, _, _)
RECURSIVE iterencode_list(_, _, _, _)
RECURSIVE iterencode_dict(_, _, _, _)

\* items i.. of a list, each after the first preceded by "," and a new line
iterencode_list(items, i, indent, level) ==
    IF i > Len(items) THEN ""
    ELSE (IF i = 1 THEN "" ELSE ",") \o NewlineIndent(indent, level)
         \o iterencode(items[i], indent, level)
         \o iterencode_list(items, i + 1, indent, level)

\* pairs i.. of a dict, in insertion order, as "key": value
iterencode_dict(pairs, i, indent, level) ==
    IF i > Len(pairs) THEN ""
    ELSE (IF i = 1 THEN "" ELSE ",") \o NewlineIndent(indent, level)
         \o encode_basestring(pairs[i][1]) \o ": "
         \o iterencode(pairs[i][2], indent, level)
         \o iterencode_dict(pairs, i + 1, indent, level)

iterencode(o, indent, level) ==
    CASE o.t = "str" -> encode_basestring(o.s)
      [] o.t = "list" ->
            IF Len(o.items) = 0 THEN "[]"
            ELSE "[" \o iterencode_list(o.items, 1, indent, level + 1)
                 \o NewlineIndent(indent, level) \o "]"
      [] o.t = "dict" ->
            IF Len(o.pairs) = 0 THEN "{}"
            ELSE "{" \o iterencode_dict(o.pairs, 1, indent, level + 1)
                 \o NewlineIndent(indent, level) \o "}"

\* json.dumps(o, indent=indent) of a renderable value
dumps(o, indent) == iterencode(o, indent, 0)

\* --------------------------------------------------------------- json.loads
Whitespace == {" ", "\t", "\n", "\r"}

RECURSIVE SkipWs(_, _)
SkipWs(s, i) ==
    IF i <= Len(s) /\ Char(s, i) \in Whitespace THEN SkipWs(s, i + 1) ELSE i

UnescapeChar(c) ==
    CASE c = "n" -> "\n"
      [] c = "r" -> "\r"
      [] c = "t" -> "\t"
      [] OTHER -> c

BadJson == [ok |-> FALSE]

\* py_scanstring from position i, just after the opening quote: take the
\* chunk up to the next quote or backslash (STRINGCHUNK), stop at a quote,
\* decode the escape after a backslash and go on
StringTerminator(s, j) == Char(s, j) \in {"\"", "\\"}

RECURSIVE scanstring(_, _, _)

\* the chunk i..j-1 and the terminator at j
ScanChunk(s, i, j, acc) ==
    IF Char(s, j) = "\"" THEN [ok |-> TRUE, val |-> acc \o SubSeq(s, i, j - 1), end |-> j + 1]
    ELSE IF j + 1 > Len(s) THEN BadJson
    ELSE scanstring(s, j + 2, acc \o SubSeq(s, i, j - 1) \o UnescapeChar(Char(s, j + 1)))

scanstring(s, i, acc) ==
    IF ~\E j \in i..Len(s) : StringTerminator(s, j) THEN BadJson
    ELSE ScanChunk(s, i,
                   CHOOSE j \in i..Len(s) :
                       /\ StringTerminator(s, j)
                       /\ \A k \in i..(j - 1) : ~StringTerminator(s, k),
                   acc)

RECURSIVE scan_once(_, _)
RECURSIVE JSONArray(_, _, _)
RECURSIVE JSONObject(_, _, _)

\* after the elements in items, at position j: "]" ends the array, ","
\* brings another element
ArrayNext(s, items, j) ==
    CASE Char(s, j) = "]" -> [ok |-> TRUE, val |-> List(items), end |-> j + 1]
      [] Char(s, j) = "," -> JSONArray(s, SkipWs(s, j + 1), items)
      [] OTHER -> BadJson

\* the element v just scanned joins acc
ArrayElement(s, acc, v) ==
    IF ~v.ok THEN BadJson ELSE ArrayNext(s, Append(acc, v.val), SkipWs(s, v.end))

\* the elements of an array from position i (at a value), collected so far
\* in acc
JSONArray(s, i, acc) == ArrayElement(s, acc, scan_once(s, i))

\* dict.__setitem__: a repeated key keeps its place and takes the new value
SetItem(pairs, k, v) ==
    IF \E n \in 1..Len(pairs) : pairs[n][1] = k
    THEN [n \in 1..Len(pairs) |-> IF pairs[n][1] = k THEN <<k, v>> ELSE pairs[n]]
    ELSE Append(pairs, <<k, v>>)

\* after the members in pairs, at position j: "}" ends the object, ","
\* brings another member
ObjectNext(s, pairs, j) ==
    CASE Char(s, j) = "}" -> [ok |-> TRUE, val |-> Dict(pairs), end |-> j + 1]
      [] Char(s, j) = "," -> JSONObject(s, SkipWs(s, j + 1), pairs)
      [] OTHER -> BadJson

\* the value v just scanned is stored under key
ObjectValue(s, acc, key, v) ==
    IF ~v.ok THEN BadJson ELSE ObjectNext(s, SetItem(acc, key, v.val), SkipWs(s, v.end))

\* after a key, at position j: a colon, then the value
ObjectColon(s, acc, key, j) ==
    IF Char(s, j) # ":" THEN BadJson
    ELSE ObjectValue(s, acc, key, scan_once(s, SkipWs(s, j + 1)))

\* the key k just scanned
ObjectKey(s, acc, k) ==
    IF ~k.ok THEN BadJson ELSE ObjectColon(s, acc, k.val, SkipWs(s, k.end))

\* the members of an object from position i (at the quote of a key)
JSONObject(s, i, acc) ==
    IF Char(s, i) # "\"" THEN BadJson ELSE ObjectKey(s, acc, scanstring(s, i + 1, ""))

\* a scanned string as a value
StringValue(r) ==
    IF r.ok THEN [ok |-> TRUE, val |-> Str(r.val), end |-> r.end] ELSE BadJson

\* just after "{", white space skipped
ObjectBody(s, j) ==
    IF Char(s, j) = "}" THEN [ok |-> TRUE, val |-> Dict(<<>>), end |-> j + 1]
    ELSE JSONObject(s, j, <<>>)

\* just after "[", white space skipped
ArrayBody(s, j) ==
    IF Char(s, j) = "]" THEN [ok |-> TRUE, val |-> List(<<>>), end |-> j + 1]
    ELSE JSONArray(s, j, <<>>)

\* one JSON value at position i
scan_once(s, i) ==
    IF i > Len(s) THEN BadJson
    ELSE CASE Char(s, i) = "\"" -> StringValue(scanstring(s, i + 1, ""))
           [] Char(s, i) = "{" -> ObjectBody(s, SkipWs(s, i + 1))
           [] Char(s, i) = "[" -> ArrayBody(s, SkipWs(s, i + 1))
           [] OTHER -> BadJson

\* raw_decode's result r is the document if only white space follows it
WholeDocument(s, r) ==
    IF r.ok /\ SkipWs(s, r.end) = Len(s) + 1 THEN r ELSE BadJson

\* json.loads(s): one value, then nothing but white space
loads(s) == WholeDocument(s, scan_once(s, SkipWs(s, 1)))

\* d with d[k] = v
WithItem(d, k, v) == Dict(SetItem(d.pairs, k, v))

\* ---------------------------------------------------- create_project_status
smart_contracts ==
    Dict(<< <<"dex_factory", Str("0xAe0DfF19f44D3544139d900a3f9f6c03C6764538")>>,
            <<"caesar_token", Str("0x6299744254422aadb6a57183f47eaae1678cf86cc58a0c78dfc4fd2caa3ba2a4")>>,
            <<"network", Str("Sepolia Testnet")>> >>)

frontend_applications ==
    Dict(<< <<"dex_interface", Str("React/TypeScript - BUILT")>>,
            <<"cross_chain_bridge", Str("LayerZero V2 - BUILT")>>,
            <<"analytics_dashboard", Str("Real-time charts - BUILT")>>,
            <<"wallet_integration", Str("RainbowKit multi-chain - BUILT")>> >>)

completed_infrastructure ==
    Dict(<< <<"phase_3_status", Str("COMPLETED")>>,
            <<"smart_contracts", smart_contracts>>,
            <<"frontend_applications", frontend_applications>> >>)

agora_dex ==
    Dict(<< <<"status", Str("PARTIALLY_IMPLEMENTED")>>,
            <<"location", Str("scrolls-app/agora-dex/")>>,
            <<"needs", List(<< Str("Enhanced trading features"),
                               Str("Advanced analytics"),
                               Str("DAO integration"),
                               Str("Mobile optimization"),
                               Str("Production deployment") >>)>> >>)

satchel_wallet ==
    Dict(<< <<"status", Str("BASIC_IMPLEMENTATION")>>,
            <<"location", Str("scrolls-app/satchel-wallet/")>>,
            <<"needs", List(<< Str("Hardware wallet support"),
                               Str("Advanced Caesar optimizations"),
                               Str("DeFi protocol integrations"),
                               Str("Portfolio management"),
                               Str("Security enhancements") >>)>> >>)

\* a slip: tablets_ui with nothing under needs
tablets_ui_no_needs ==
    Dict(<< <<"status", Str("PARTIAL_ANALYTICS")>>,
            <<"location", Str("scrolls-app/tablets-ui/")>>,
            <<"needs", List(<<>>)>> >>)

tablets_ui ==
    Dict(<< <<"status", Str("PARTIAL_ANALYTICS")>>,
            <<"location", Str("scrolls-app/tablets-ui/")>>,
            <<"needs", List(<< Str("Complete portfolio dashboard"),
                               Str("Advanced token analytics"),
                               Str("Mining interface"),
                               Str("Performance monitoring"),
                               Str("Cross-chain bridge UI enhancement") >>)>> >>)

\* a slip: the tablets_ui entry left out
development_requirements_two ==
    Dict(<< <<"agora_dex", agora_dex>>,
            <<"satchel_wallet", satchel_wallet>> >>)

development_requirements ==
    Dict(<< <<"agora_dex", agora_dex>>,
            <<"satchel_wallet", satchel_wallet>>,
            <<"tablets_ui", tablets_ui>> >>)

next_actions ==
    List(<< Str("Initialize PDL repository tracking"),
            Str("Create comprehensive roadmap for ecosystem expansion"),
            Str("Delegate to appropriate specialized agents"),
            Str("Set up parallel development workflows"),
            Str("Plan integration testing strategy") >>)

\* a slip: last_updated written as the first key of the literal
create_project_status_reordered(now) ==
    Dict(<< <<"last_updated", Str(isoformat(now))>>,
            <<"project_name", Str("Caesar Token DEX/Wallet/App Development")>>,
            <<"project_path", Str("/home/persist/repos/work/vazio/caesar")>>,
            <<"current_phase", Str("Assessment & Planning")>>,
            <<"phase_status", Str("INITIALIZING")>>,
            <<"completed_infrastructure", completed_infrastructure>>,
            <<"development_requirements", development_requirements>>,
            <<"next_actions", next_actions>> >>)

\* a slip: the time of the run also goes into current_phase
create_project_status_two_stamps(now) ==
    Dict(<< <<"project_name", Str("Caesar Token DEX/Wallet/App Development")>>,
            <<"project_path", Str("/home/persist/repos/work/vazio/caesar")>>,
            <<"current_phase", Str("Assessment & Planning " \o isoformat(now))>>,
            <<"phase_status", Str("INITIALIZING")>>,
            <<"last_updated", Str(isoformat(now))>>,
            <<"completed_infrastructure", completed_infrastructure>>,
            <<"development_requirements", development_requirements>>,
            <<"next_actions", next_actions>> >>)

\* a slip: datetime.now() stored without .isoformat()
create_project_status_raw(now) ==
    Dict(<< <<"project_name", Str("Caesar Token DEX/Wallet/App Development")>>,
            <<"project_path", Str("/home/persist/repos/work/vazio/caesar")>>,
            <<"current_phase", Str("Assessment & Planning")>>,
            <<"phase_status", Str("INITIALIZING")>>,
            <<"last_updated", Datetime(now)>>,
            <<"completed_infrastructure", completed_infrastructure>>,
            <<"development_requirements", development_requirements>>,
            <<"next_actions", next_actions>> >>)

\* the dict literal of create_project_status, given the value datetime.now()
\* returned
create_project_status(now) ==
    Dict(<< <<"project_name", Str("Caesar Token DEX/Wallet/App Development")>>,
            <<"project_path", Str("/home/persist/repos/work/vazio/caesar")>>,
            <<"current_phase", Str("Assessment & Planning")>>,
            <<"phase_status", Str("INITIALIZING")>>,
            <<"last_updated", Str(isoformat(now))>>,
            <<"completed_infrastructure", completed_infrastructure>>,
            <<"development_requirements", development_requirements>>,
            <<"next_actions", next_actions>> >>)

\* -------------------------------------------------------------------- state
VARIABLES
    clock,        \* the wall clock of the host, a datetime
    clock_ok,     \* whether the host can read its clock
    runs,         \* how many times the program has been started
    pc,           \* where the running process is in __main__
    status,       \* the module-level name status (line 83)
    text,         \* the value of json.dumps(status, indent=2) (line 84)
    stdout,       \* what the running process has written to standard output
    stderr,       \* the traceback of the running process, by exception name
    exit_code,    \* exit status of the process; -1 while it runs
    clock_reads,  \* calls of datetime.now() made by the running process
    reading,      \* what datetime.now() returned in create_project_status
    outputs       \* standard output of each finished process, oldest first

vars == <<clock, clock_ok, runs, pc, status, text, stdout, stderr, exit_code,
          clock_reads, reading, outputs>>

\* the window of wall-clock values
ClockValues ==
    [year : {2025}, month : {8}, day : {14}, hour : {9}, minute : {30},
     second : 0..MaxSecond, microsecond : 0..MaxMicrosecond]

Later(a, b) ==
    \/ b.second > a.second
    \/ b.second = a.second /\ b.microsecond > a.microsecond

\* a fresh process of the script
ProcessStart ==
    /\ pc = "start"
    /\ status = Unset
    /\ text = ""
    /\ stdout = ""
    /\ stderr = ""
    /\ exit_code = -1
    /\ clock_reads = 0
    /\ reading = Unset

Init ==
    /\ clock \in ClockValues
    /\ clock_ok = TRUE
    /\ runs = 1
    /\ outputs = <<>>
    /\ ProcessStart

\* ------------------------------------------------------------------ actions
\* time passes on the host
Tick ==
    /\ \E c \in ClockValues : Later(clock, c) /\ clock' = c
    /\ UNCHANGED <<clock_ok, runs, pc, status, text, stdout, stderr, exit_code,
                   clock_reads, reading, outputs>>

\* line 83: status = create_project_status(), the clock read at line 18
CreateProjectStatus ==
    /\ pc = "start"
    /\ clock_ok
    /\ clock_reads' = clock_reads + 1
    /\ reading' = Datetime(clock)
    /\ status' = create_project_status(clock)
    /\ pc' = "built"
    /\ UNCHANGED <<clock, clock_ok, runs, text, stdout, stderr, exit_code, outputs>>

\* a slip: json.dumps(status, indent=4)
JsonDumps_indent4 ==
    /\ pc = "built"
    /\ Renderable(status)
    /\ text' = dumps(status, 4)
    /\ pc' = "serialized"
    /\ UNCHANGED <<clock, clock_ok, runs, status, stdout, stderr, exit_code,
                   clock_reads, reading, outputs>>

\* a slip: last_updated stamped again when the record is serialized
JsonDumps_restamp ==
    /\ pc = "built"
    /\ Renderable(status)
    /\ clock_reads' = clock_reads + 1
    /\ status' = WithItem(status, "last_updated", Str(isoformat(clock)))
    /\ text' = dumps(status', 2)
    /\ pc' = "serialized"
    /\ UNCHANGED <<clock, clock_ok, runs, stdout, stderr, exit_code, reading,
                   outputs>>

\* line 84, inner call: json.dumps(status, indent=2)
JsonDumps ==
    /\ pc = "built"
    /\ Renderable(status)
    /\ text' = dumps(status, 2)
    /\ pc' = "serialized"
    /\ UNCHANGED <<clock, clock_ok, runs, status, stdout, stderr, exit_code,
                   clock_reads, reading, outputs>>

\* a slip: the document printed twice
WriteStdout_twice ==
    /\ pc = "serialized"
    /\ stdout' = stdout \o text \o "\n" \o text \o "\n"
    /\ pc' = "printed"
    /\ UNCHANGED <<clock, clock_ok, runs, status, text, stderr, exit_code,
                   clock_reads, reading, outputs>>

\* line 84, outer call: print(...) writes the text and a newline
WriteStdout ==
    /\ pc = "serialized"
    /\ stdout' = stdout \o text \o "\n"
    /\ pc' = "printed"
    /\ UNCHANGED <<clock, clock_ok, runs, status, text, stderr, exit_code,
                   clock_reads, reading, outputs>>

\* the end of the script: the interpreter exits with status 0
Exit ==
    /\ pc = "printed"
    /\ exit_code' = 0
    /\ pc' = "exited"
    /\ outputs' = Append(outputs, stdout)
    /\ UNCHANGED <<clock, clock_ok, runs, status, text, stdout, stderr,
                   clock_reads, reading>>

\* the script is started again
Invoke ==
    /\ pc = "exited"
    /\ runs < MaxRuns
    /\ runs' = runs + 1
    /\ pc' = "start"
    /\ status' = Unset
    /\ text' = ""
    /\ stdout' = ""
    /\ stderr' = ""
    /\ exit_code' = -1
    /\ clock_reads' = 0
    /\ reading' = Unset
    /\ UNCHANGED <<clock, clock_ok, outputs>>

\* ---- the paths on which a call raises; nothing in the script catches
\* the host loses its clock
ClockBreaks ==
    /\ clock_ok
    /\ clock_ok' = FALSE
    /\ UNCHANGED <<clock, runs, pc, status, text, stdout, stderr, exit_code,
                   clock_reads, reading, outputs>>

\* a slip: the failed clock read caught and a record built all the same
CreateProjectStatusRaises_fallback ==
    /\ pc = "start"
    /\ ~clock_ok
    /\ clock_reads' = clock_reads + 1
    /\ status' = create_project_status(clock)
    /\ pc' = "built"
    /\ UNCHANGED <<clock, clock_ok, runs, text, stdout, stderr, exit_code,
                   reading, outputs>>

\* line 18: datetime.now() raises OSError inside create_project_status, so
\* line 83 assigns nothing
CreateProjectStatusRaises ==
    /\ pc = "start"
    /\ ~clock_ok
    /\ clock_reads' = clock_reads + 1
    /\ stderr' = "OSError"
    /\ pc' = "raised"
    /\ UNCHANGED <<clock, clock_ok, runs, status, text, stdout, exit_code,
                   reading, outputs>>

\* a slip: the TypeError caught and an empty document printed in its place
JsonDumpsRaises_suppressed ==
    /\ pc = "built"
    /\ ~Renderable(status)
    /\ text' = "{}"
    /\ pc' = "serialized"
    /\ UNCHANGED <<clock, clock_ok, runs, status, stdout, stderr, exit_code,
                   clock_reads, reading, outputs>>

\* line 84: json.dumps raises TypeError on a value it cannot render, before
\* print is called
JsonDumpsRaises ==
    /\ pc = "built"
    /\ ~Renderable(status)
    /\ stderr' = "TypeError"
    /\ pc' = "raised"
    /\ UNCHANGED <<clock, clock_ok, runs, status, text, stdout, exit_code,
                   clock_reads, reading, outputs>>

\* an exception nobody caught: traceback on stderr, exit status 1
UncaughtException ==
    /\ pc = "raised"
    /\ exit_code' = 1
    /\ pc' = "exited"
    /\ outputs' = Append(outputs, stdout)
    /\ UNCHANGED <<clock, clock_ok, runs, status, text, stdout, stderr,
                   clock_reads, reading>>

\* ----------------------------------------------------------- specifications
Run == CreateProjectStatus \/ JsonDumps \/ WriteStdout \/ Exit

\* the program on a host whose clock can be read
Next == Tick \/ CreateProjectStatus \/ JsonDumps \/ WriteStdout \/ Exit \/ Invoke

Spec == Init /\ [][Next]_vars

\* the interpreter runs an enabled statement: no statement of the script
\* blocks or waits
FairSpec == Spec /\ WF_vars(Run)

\* lines 82-84 handed a record that json.dumps cannot render: the record of
\* the source with a datetime left unconverted
UnrenderableRecords(c) ==
    {WithItem(create_project_status(c), "last_updated", Datetime(c)),
     WithItem(create_project_status(c), "next_actions", List(<<Str("Plan"), Datetime(c)>>))}

InitFault ==
    \/ Init
    \/ /\ clock \in ClockValues
       /\ clock_ok = TRUE
       /\ runs = 1
       /\ outputs = <<>>
       /\ pc = "built"
       /\ \E c \in ClockValues :
            /\ ~Later(clock, c)
            /\ reading = Datetime(c)
            /\ status \in UnrenderableRecords(c)
       /\ text = ""
       /\ stdout = ""
       /\ stderr = ""
       /\ exit_code = -1
       /\ clock_reads = 1

NextFault ==
    \/ Tick \/ CreateProjectStatus \/ JsonDumps \/ WriteStdout \/ Exit \/ Invoke
    \/ ClockBreaks \/ CreateProjectStatusRaises \/ JsonDumpsRaises
    \/ UncaughtException

SpecFault == InitFault /\ [][NextFault]_vars

TypeOK ==
    /\ clock \in ClockValues
    /\ clock_ok \in BOOLEAN
    /\ runs \in 1..MaxRuns
    /\ pc \in {"start", "built", "serialized", "printed", "raised", "exited"}
    /\ exit_code \in {-1, 0, 1}
    /\ clock_reads \in 0..1
    /\ Len(outputs) <= runs

\* ------------------------------------------------------------------- claims
TopLevelKeys ==
    <<"project_name", "project_path", "current_phase", "phase_status",
      "last_updated", "completed_infrastructure", "development_requirements",
      "next_actions">>

\* doc, the result of loads, is a mapping with the fixed keys, those of st
DocumentKeys(doc, st) ==
    /\ doc.ok
    /\ doc.val.t = "dict"
    /\ Keys(doc.val) = TopLevelKeys
    /\ Keys(doc.val) = Keys(st)

\* C1: the top-level keys of the record, and of the document the process has
\* printed when it ends, read back, are exactly the eight fixed keys in their
\* fixed order.
C1_TopLevelKeys ==
    /\ status # Unset => Keys(status) = TopLevelKeys
    /\ pc = "exited" => DocumentKeys(loads(stdout), status)

C1_Witness == pc = "exited" /\ stdout # "" /\ reading.dt.microsecond # 0

\* the document with the value of its top-level last_updated blanked
Redact(doc) == WithItem(doc, "last_updated", Str(""))

\* docs, results of loads, are documents equal but for last_updated
SameButLastUpdated(docs) ==
    \A i, j \in DOMAIN docs :
        /\ docs[i].ok
        /\ docs[j].ok
        /\ HasKey(docs[i].val, "last_updated")
        /\ Redact(docs[i].val) = Redact(docs[j].val)

\* C2: whenever a run ends, the outputs of any two runs so far, read back, have the same keys and values
\* in the same order at every depth, except for the value of last_updated.
C2_DifferOnlyInLastUpdated ==
    pc = "exited" => SameButLastUpdated([i \in 1..Len(outputs) |-> loads(outputs[i])])

C2_Witness == Len(outputs) = 2 /\ outputs[1] # outputs[2]

\* doc, the result of loads, rendered again with indent 2 and followed by
\* end is s
Reserialized(doc, end, s) == doc.ok /\ dumps(doc.val, 2) \o end = s

\* C3: reading the serialized text back and rendering it again with indent 2
\* gives the same text, for the value json.dumps returned and for what the
\* process has printed when it ends.
C3_RoundTrip ==
    /\ pc = "serialized" => Reserialized(loads(text), "", text)
    /\ pc = "exited" => Reserialized(loads(stdout), "\n", stdout)

C3_Witness == pc = "serialized" /\ text # "" /\ stdout = ""

IsDigit(c) == c \in {"0", "1", "2", "3", "4", "5", "6", "7", "8", "9"}

\* YYYY-MM-DDTHH:MM:SS or YYYY-MM-DDTHH:MM:SS.ffffff
IsIso8601(s) ==
    /\ Len(s) \in {19, 26}
    /\ \A i \in 1..Len(s) :
          CASE i \in {5, 8} -> Char(s, i) = "-"
            [] i = 11 -> Char(s, i) = "T"
            [] i \in {14, 17} -> Char(s, i) = ":"
            [] i = 20 -> Char(s, i) = "."
            [] OTHER -> IsDigit(Char(s, i))

\* doc, the result of loads, has v under last_updated
DocumentStamp(doc, v) == doc.ok /\ Get(doc.val, "last_updated") = v

C4_StampedAtConstruction ==
    status # Unset =>
        /\ clock_reads = 1
        /\ reading # Unset
        /\ Get(status, "last_updated") = Str(isoformat(reading.dt))
        /\ IsIso8601(Get(status, "last_updated").s)
        /\ pc = "exited" => DocumentStamp(loads(stdout), Str(isoformat(reading.dt)))

\* C4: the clock is read once, in create_project_status; last_updated is that
\* reading in ISO-8601 form in the record and in the printed document, and
\* no later step reads the clock or writes the field again.
C4_CapturedOnce ==
    /\ []C4_StampedAtConstruction
    /\ [][status # Unset /\ status' # Unset =>
             /\ clock_reads' = clock_reads
             /\ Get(status', "last_updated") = Get(status, "last_updated")]_vars

C4_Witness == pc = "exited" /\ exit_code = 0 /\ Later(reading.dt, clock)

\* C5: the built record has the fixed project_name and phase_status, and
\* development_requirements has exactly the keys agora_dex, satchel_wallet
\* and tablets_ui.
C5_Scenario ==
    status # Unset =>
        /\ Get(status, "project_name") = Str("Caesar Token DEX/Wallet/App Development")
        /\ Get(status, "phase_status") = Str("INITIALIZING")
        /\ Len(Get(status, "development_requirements").pairs) = 3
        /\ {Keys(Get(status, "development_requirements"))[i] : i \in 1..3}
              = {"agora_dex", "satchel_wallet", "tablets_ui"}

C5_Witness == pc = "built" /\ HasKey(status, "development_requirements")

\* C6: every entry of development_requirements is a mapping with status,
\* location and needs, and needs is a non-empty list of strings.
C6_NeedsNonEmpty ==
    status # Unset =>
        LET reqs == Get(status, "development_requirements").pairs IN
        \A i \in 1..Len(reqs) :
            LET entry == reqs[i][2] IN
            /\ entry.t = "dict"
            /\ Keys(entry) = <<"status", "location", "needs">>
            /\ Get(entry, "status").t = "str"
            /\ Get(entry, "location").t = "str"
            /\ Get(entry, "needs").t = "list"
            /\ Len(Get(entry, "needs").items) > 0
            /\ \A n \in 1..Len(Get(entry, "needs").items) :
                  Get(entry, "needs").items[n].t = "str"

C6_Witness ==
    /\ pc = "built"
    /\ Len(Get(status, "development_requirements").pairs) = 3
    /\ Len(Get(Get(Get(status, "development_requirements"), "tablets_ui"), "needs").items) = 5

Order ==
    {<<"start", "built">>, <<"built", "serialized">>, <<"serialized", "printed">>,
     <<"printed", "exited">>, <<"exited", "start">>}

\* doc, the result of loads, is one whole document holding st
DocumentIs(doc, st) == doc.ok /\ doc.val = st

\* C7: every process goes through build, serialize, write, exit in that
\* order, writes only once the record is built and serialized, ends with
\* status 0 having written exactly one complete document (the record), and
\* does end.
C7_OnePass ==
    /\ [](pc = "exited" =>
            /\ exit_code = 0
            /\ stdout = text \o "\n"
            /\ DocumentIs(loads(stdout), status))
    /\ [][pc' # pc => <<pc, pc'>> \in Order]_vars
    /\ [][stdout' # stdout /\ stdout' # "" =>
             pc = "serialized" /\ status # Unset /\ text # ""]_vars
    /\ (pc = "start" ~> (pc = "exited" /\ exit_code = 0))

C7_Witness == pc = "exited" /\ exit_code = 0 /\ stdout # "" /\ runs = MaxRuns

\* C8: when the clock cannot be read, create_project_status raises: no record
\* is bound, nothing is serialized or written, the clock is not read again,
\* and the process ends with a failure status.
C8_ClockUnavailable ==
    /\ [][pc = "start" /\ ~clock_ok /\ pc' # pc =>
             /\ pc' = "raised"
             /\ stderr' = "OSError"
             /\ status' = Unset]_vars
    /\ [](stderr = "OSError" =>
            /\ status = Unset
            /\ text = ""
            /\ stdout = ""
            /\ clock_reads = 1
            /\ pc \in {"raised", "exited"}
            /\ pc = "exited" => exit_code = 1 /\ outputs[Len(outputs)] = "")

C8_Witness == stderr = "OSError" /\ pc = "exited" /\ exit_code = 1

\* C9: when json.dumps cannot render the record, the TypeError ends the
\* process at once with a failure status, and nothing, whole or partial, is
\* written to standard output.
C9_SerializationFailureSurfaces ==
    /\ [][pc = "built" /\ ~Renderable(status) /\ pc' # pc =>
             /\ pc' = "raised"
             /\ stderr' = "TypeError"
             /\ stdout' = ""]_vars
    /\ [](stderr = "TypeError" =>
            /\ text = ""
            /\ stdout = ""
            /\ pc \in {"raised", "exited"}
            /\ pc = "exited" => exit_code = 1 /\ outputs[Len(outputs)] = "")

C9_Witness == stderr = "TypeError" /\ pc = "exited" /\ exit_code = 1 /\ stdout = ""

\* strings, lists of strings, and mappings of these
RECURSIVE WellShaped(_)
WellShaped(o) ==
    CASE o.t = "str" -> TRUE
      [] o.t = "list" -> \A i \in 1..Len(o.items) : o.items[i].t = "str"
      [] o.t = "dict" -> \A i \in 1..Len(o.pairs) : WellShaped(o.pairs[i][2])
      [] OTHER -> FALSE

\* C10: every value of the built record is a string, a list of strings or a
\* mapping of these, so json.dumps can render it and the step on which
\* json.dumps raises is never enabled.
C10_RecordShape ==
    status # Unset =>
        /\ status.t = "dict"
        /\ WellShaped(status)
        /\ Renderable(status)
        /\ ~ENABLED JsonDumpsRaises

C10_Witness == pc = "built" /\ status # Unset /\ ENABLED JsonDumps
====
